---- MODULE Spec2Model ----
(***************************************************************************)
(* The HTTP gateway handler of go-ipfs (core/corehttp/gateway_handler.go). *)
(*                                                                         *)
(* A string is a sequence of atoms: the atom "/" is the path separator and *)
(* every other atom ("ipfs", "Qm1", "a", "index.html", "..") is a piece of *)
(* text without a slash.  "/ipfs/Qm1/a" is <<"/","ipfs","/","Qm1","/","a">>.*)
(* The string functions of the Go library (strings.Split, path.Clean,      *)
(* path.Join, path.Base, ...) are computed on that representation.         *)
(*                                                                         *)
(* The store maps keys to nodes.  A key is content derived: Add gives a    *)
(* node the key it already has in the store, or the next unused key name.  *)
(***************************************************************************)
EXTENDS Naturals, Sequences, FiniteSets, TLC

VARIABLES
    writable,   \* i.config.Writable
    blockList,  \* i.config.BlockList: the root keys or names it blocks
    dag,        \* i.node.DAG: key -> node
    before,     \* dag as it was when the last request arrived
    req,        \* the last request
    ev,         \* what the handler of the last request did, in order
    tasks       \* the handlers that run at once, each on its own goroutine

vars == <<writable, blockList, dag, before, req, ev, tasks>>

----------------------------------------------------------------------------
(* Bounds *)

\* a request may add keys to the store while the store holds fewer than this
\* many keys beyond the ones it starts with
MaxAdds == 1
\* link names after the root key in a request path
MaxDepth == 2
\* handlers that run at once
MaxTasks == 2

----------------------------------------------------------------------------
(* Strings *)

ipfsPathPrefix == <<"/", "ipfs", "/">>
ipnsPathPrefix == <<"/", "ipns", "/">>

\* the key of the empty unixfs directory, as postHandler spells it
EmptyDirKey == "QmUNLLsPACCz1vLxQVkXqqLX5R1X345qqfHbsf67hvA3Nn"

Last(s) == s[Len(s)]

HasPrefix(s, p) == Len(s) >= Len(p) /\ SubSeq(s, 1, Len(p)) = p

HasSuffix(s, p) == Len(s) >= Len(p) /\ SubSeq(s, Len(s) - Len(p) + 1, Len(s)) = p

\* strings.Split(s, "/")
RECURSIVE Split(_)
Split(s) ==
    IF s = <<>> THEN << <<>> >>
    ELSE LET front == Split(SubSeq(s, 1, Len(s) - 1))
         IN  IF Last(s) = "/" THEN Append(front, <<>>)
             ELSE [front EXCEPT ![Len(front)] = Append(@, Last(s))]

\* strings.Join(parts, "/")
RECURSIVE StringsJoin(_)
StringsJoin(parts) ==
    IF parts = <<>> THEN <<>>
    ELSE IF Len(parts) = 1 THEN parts[1]
    ELSE parts[1] \o <<"/">> \o StringsJoin(Tail(parts))

\* the pieces path.Clean keeps of parts, after those of out
RECURSIVE CleanParts(_, _, _)
CleanParts(parts, out, rooted) ==
    IF parts = <<>> THEN out
    ELSE LET p == parts[1]
             next == IF p = <<>> \/ p = <<".">> THEN out
                     ELSE IF p = <<"..">>
                     THEN IF out # <<>> /\ Last(out) # <<"..">>
                          THEN SubSeq(out, 1, Len(out) - 1)
                          ELSE IF rooted THEN out ELSE Append(out, p)
                     ELSE Append(out, p)
         IN  CleanParts(Tail(parts), next, rooted)

\* path.Clean
Clean(s) ==
    LET rooted == s # <<>> /\ s[1] = "/"
        body   == StringsJoin(CleanParts(Split(s), <<>>, rooted))
    IN  IF rooted THEN <<"/">> \o body
        ELSE IF body = <<>> THEN <<".">> ELSE body

\* path.Join
Join(elems) ==
    LET keep == SelectSeq(elems, LAMBDA e : e # <<>>)
    IN  IF keep = <<>> THEN <<>> ELSE Clean(StringsJoin(keep))

\* s without its trailing slashes
RECURSIVE TrimSlashes(_)
TrimSlashes(s) ==
    IF s # <<>> /\ Last(s) = "/" THEN TrimSlashes(SubSeq(s, 1, Len(s) - 1)) ELSE s

\* path.Base
Base(s) ==
    IF s = <<>> THEN <<".">>
    ELSE LET t == TrimSlashes(s)
         IN  IF t = <<>> THEN <<"/">> ELSE Last(Split(t))

\* the file name path.Split gives: what follows the final slash
SplitFile(s) == Last(Split(s))

----------------------------------------------------------------------------
(* Nodes, links and keys *)

Link(name, size, target) == [Name |-> name, Size |-> size, Target |-> target]

Node(data, links) == [Data |-> data, Links |-> links]

NilNode == Node("nil", <<>>)

\* uio.NewEmptyDirectory()
NewEmptyDirectory == Node("dir", <<>>)

RECURSIVE SumSizes(_)
SumSizes(links) ==
    IF links = <<>> THEN 0 ELSE links[1].Size + SumSizes(Tail(links))

\* Node.Size(): the node's own bytes (one unit) and the sizes of its links
NodeSize(nd) == 1 + SumSizes(nd.Links)

KeyName(i) == "Qm" \o ToString(i)

\* a key whose node no store of the model holds
RemoteKey == "QmRemote"

\* Node.Key(): the key of its content
KeyOf(st, nd) ==
    IF nd = NewEmptyDirectory THEN EmptyDirKey
    ELSE IF \E k \in DOMAIN st : st[k] = nd
    THEN CHOOSE k \in DOMAIN st : st[k] = nd
    ELSE KeyName(CHOOSE i \in 1..(Cardinality(DOMAIN st) + 1) :
                     /\ KeyName(i) \notin DOMAIN st
                     /\ \A j \in 1..(i-1) : KeyName(j) \in DOMAIN st)

\* DAG.Add
DagAdd(st, nd) ==
    LET k == KeyOf(st, nd)
    IN  [key |-> k, st |-> IF k \in DOMAIN st THEN st ELSE st @@ (k :> nd)]

\* DAG.Get: a key the store does not hold is fetched from the network, which
\* fails with netErr
DagGet(st, k, netErr) ==
    IF k \in DOMAIN st THEN [err |-> "nil", node |-> st[k]]
    ELSE [err |-> netErr, node |-> NilNode]

\* the first link of nd named name, 0 when there is none
LinkIndex(nd, name) ==
    IF \E i \in 1..Len(nd.Links) : nd.Links[i].Name = name
    THEN CHOOSE i \in 1..Len(nd.Links) :
            /\ nd.Links[i].Name = name
            /\ \A j \in 1..(i-1) : nd.Links[j].Name # name
    ELSE 0

\* Node.RemoveNodeLink then Node.AddNodeLinkClean
ReplaceLink(st, nd, name, child) ==
    Node(nd.Data,
         Append(SelectSeq(nd.Links, LAMBDA l : l.Name # name),
                Link(name, NodeSize(child), KeyOf(st, child))))

\* The store the gateway starts with: the empty directory, a file Qm3, a
\* directory Qm2 holding the file, a directory Qm1 holding Qm2, a directory
\* Qm4 holding Qm2 and an index.html that is a block the local store does
\* not hold, and a directory Qm5 holding Qm4.
FileNode == Node("f1", <<>>)
DirA     == Node("dir", <<Link(<<"a">>, NodeSize(FileNode), KeyName(3))>>)
DirRoot  == Node("dir", <<Link(<<"a">>, NodeSize(DirA), KeyName(2))>>)
DirIndex == Node("dir", <<Link(<<"a">>, NodeSize(DirA), KeyName(2)),
                          Link(<<"index.html">>, NodeSize(FileNode), RemoteKey)>>)
DirSite  == Node("dir", <<Link(<<"a">>, NodeSize(DirIndex), KeyName(4))>>)

InitDag ==
    (EmptyDirKey :> NewEmptyDirectory) @@ (KeyName(1) :> DirRoot) @@
    (KeyName(2) :> DirA) @@ (KeyName(3) :> FileNode) @@
    (KeyName(4) :> DirIndex) @@ (KeyName(5) :> DirSite)

----------------------------------------------------------------------------
(* Path model and resolver (package path, core.Resolve) *)

\* the name the naming system resolves, and the key it resolves to
IpnsName == "example.net"

Namesys(name) == IF name = <<IpnsName>> THEN KeyName(5) ELSE ""

\* a string that is the base58 text of a key
IsKey(s) ==
    /\ Len(s) = 1
    /\ \/ s[1] \in {EmptyDirKey, RemoteKey}
       \/ \E i \in 1..(Cardinality(DOMAIN InitDag) + MaxAdds + MaxDepth + 1) : s[1] = KeyName(i)

\* key.B58KeyDecode
B58KeyDecode(s) == IF Len(s) = 1 THEN s[1] ELSE "invalid"

\* path.ParsePath: "nil", or the error
ParsePath(txt) ==
    LET parts == Split(txt)
    IN  IF Len(parts) < 3 \/ parts[1] # <<>> THEN "other"
        ELSE IF parts[2] = <<"ipfs">>
        THEN IF IsKey(parts[3]) THEN "nil" ELSE "other"
        ELSE IF parts[2] = <<"ipns">> THEN "nil"
        ELSE "other"

\* Path.Segments: the split of the path, without the empty piece a leading
\* slash gives
Segments(p) ==
    LET parts == Split(p)
    IN  IF parts[1] = <<>> THEN Tail(parts) ELSE parts

\* Resolver walk from a node along link names: first match by name
RECURSIVE ResolveLinks(_, _, _, _)
ResolveLinks(st, nd, names, netErr) ==
    IF names = <<>> THEN [err |-> "nil", node |-> nd]
    ELSE LET i == LinkIndex(nd, names[1])
         IN  IF i = 0 THEN [err |-> "path.ErrNoLink", node |-> nd]
             ELSE LET g == DagGet(st, nd.Links[i].Target, netErr)
                  IN  IF g.err # "nil" THEN g
                      ELSE ResolveLinks(st, g.node, Tail(names), netErr)

\* core.Resolve: a name-addressed path is first resolved to its key; empty
\* pieces of the path (doubled or trailing slashes) name nothing
Resolve(st, p, netErr) ==
    LET segs == SelectSeq(Segments(p), LAMBDA x : x # <<>>)
    IN  IF Len(segs) < 2 \/ segs[1] \notin {<<"ipfs">>, <<"ipns">>}
        THEN [err |-> "other", node |-> NilNode]
        ELSE LET k == IF segs[1] = <<"ipns">> THEN Namesys(segs[2])
                      ELSE IF IsKey(segs[2]) THEN segs[2][1] ELSE ""
             IN  IF k = ""
                 THEN [err |-> IF segs[1] = <<"ipns">> THEN netErr ELSE "other",
                       node |-> NilNode]
                 ELSE LET g == DagGet(st, k, netErr)
                      IN  IF g.err # "nil" THEN g
                          ELSE ResolveLinks(st, g.node, SubSeq(segs, 3, Len(segs)), netErr)

----------------------------------------------------------------------------
(* DAG editor (merkledag/utils) *)

\* Editor.InsertNodeAtPath on the split path: copy on write from the root,
\* missing directories on the way are created empty
RECURSIVE InsertAt(_, _, _, _, _)
InsertAt(st, root, segs, toinsert, netErr) ==
    IF Len(segs) = 1
    THEN IF segs[1] = <<>> THEN [err |-> "other", st |-> st, node |-> root]
         ELSE LET a1 == DagAdd(st, toinsert)
                  nr == ReplaceLink(a1.st, root, segs[1], toinsert)
              IN  [err |-> "nil", st |-> DagAdd(a1.st, nr).st, node |-> nr]
    ELSE LET i == LinkIndex(root, segs[1])
             c == IF i = 0 THEN [err |-> "nil", node |-> NewEmptyDirectory]
                  ELSE DagGet(st, root.Links[i].Target, netErr)
         IN  IF c.err # "nil" THEN [err |-> c.err, st |-> st, node |-> root]
             ELSE LET r == InsertAt(st, c.node, Tail(segs), toinsert, netErr)
                  IN  IF r.err # "nil" THEN [err |-> r.err, st |-> st, node |-> root]
                      ELSE LET nr == ReplaceLink(r.st, root, segs[1], r.node)
                           IN  [err |-> "nil", st |-> DagAdd(r.st, nr).st, node |-> nr]

InsertNodeAtPath(st, root, p, toinsert, netErr) ==
    InsertAt(st, root, Split(p), toinsert, netErr)

\* Editor.RmLink on the split path: all or nothing
RECURSIVE RmAt(_, _, _, _)
RmAt(st, root, segs, netErr) ==
    LET i == LinkIndex(root, segs[1])
    IN  IF i = 0 THEN [err |-> "NoSuchLink", st |-> st, node |-> root]
        ELSE IF Len(segs) = 1
        THEN LET nr == Node(root.Data,
                            SelectSeq(root.Links, LAMBDA l : l.Name # segs[1]))
             IN  [err |-> "nil", st |-> DagAdd(st, nr).st, node |-> nr]
        ELSE LET c == DagGet(st, root.Links[i].Target, netErr)
             IN  IF c.err # "nil" THEN [err |-> c.err, st |-> st, node |-> root]
                 ELSE LET r == RmAt(st, c.node, Tail(segs), netErr)
                      IN  IF r.err # "nil" THEN [err |-> r.err, st |-> st, node |-> root]
                          ELSE LET nr == ReplaceLink(r.st, root, segs[1], r.node)
                               IN  [err |-> "nil", st |-> DagAdd(r.st, nr).st, node |-> nr]

RmLink(st, root, p, netErr) == RmAt(st, root, Split(p), netErr)

\* importer.BuildDagFromReader: one node holding the body, added to the store
Unreadable == "unreadable"

newDagFromReader(st, body) ==
    IF body = Unreadable THEN [err |-> "other", st |-> st, node |-> NilNode]
    ELSE LET nd == Node(body, <<>>)
         IN  [err |-> "nil", st |-> DagAdd(st, nd).st, node |-> nd]

\* uio.NewDagReader: a directory is no byte stream; the blocks a file links
\* to are fetched
NewDagReader(st, nd, netErr) ==
    IF nd.Data = "dir" THEN "uio.ErrIsDir"
    ELSE IF \E i \in 1..Len(nd.Links) : nd.Links[i].Target \notin DOMAIN st
    THEN netErr
    ELSE "nil"

\* BlockList.ShouldBlock: the list names the roots it blocks
ShouldBlock(p) == Len(Split(p)) >= 3 /\ Split(p)[3] \in blockList

----------------------------------------------------------------------------
(* What a handler does: calls of its collaborators and writes to the       *)
(* http.ResponseWriter, in order.  A handler is a chain of steps; each     *)
(* step is given what the steps before it computed.                        *)

Ev(op, code, name, val, err) ==
    [op |-> op, code |-> code, name |-> name, val |-> val, err |-> err]

Call(op, val, err) == Ev(op, 0, "", val, err)

WriteHeader(code) == Ev("WriteHeader", code, "", <<>>, "nil")

HeaderSet(name, val) == Ev("Header.Set", 0, name, val, "nil")

Write(what) == Ev("Write", 0, what, <<>>, "nil")

\* a handler's result: the store it leaves and what it did
Done(st, e) == [st |-> st, ev |-> e]

\* e, then what the rest of the handler did
Then(e, out) == [st |-> out.st, ev |-> e \o out.ev]

\* ctx, cancel := context.WithCancel(i.node.Context()): a scope of the
\* function named, child of the scope of the node
NodeContext == "i.node.Context()"

WithCancel(scope) == Ev("context.WithCancel", 0, NodeContext, <<scope>>, "nil")

\* the deferred cancel()
Cancel(scope) == Ev("cancel", 0, "", <<scope>>, "nil")

\* what the handler did, then what its defers do when it returns
Deferred(out, e) == [st |-> out.st, ev |-> out.ev \o e]

addUserHeaders == <<Call("addUserHeaders", <<>>, "nil")>>

webErrorWithCode(code) == <<WriteHeader(code), Write("error")>>

webError(err, defaultCode) ==
    IF err = "path.ErrNoLink" THEN webErrorWithCode(404)
    ELSE IF err = "routing.ErrNotFound" THEN webErrorWithCode(404)
    ELSE IF err = "context.DeadlineExceeded" THEN webErrorWithCode(408)
    ELSE webErrorWithCode(defaultCode)

internalWebError == webErrorWithCode(500)

\* http.Redirect: the Location is the cleaned url, its trailing slash kept
RedirectTo(url, cleaned, code) ==
    <<HeaderSet("Location",
                IF HasSuffix(url, <<"/">>) /\ ~HasSuffix(cleaned, <<"/">>)
                THEN cleaned \o <<"/">> ELSE cleaned),
      WriteHeader(code)>>

Redirect(url, code) == RedirectTo(url, Clean(url), code)

\* http.ServeContent
ServeContent(method, name, modtime) ==
    <<Ev("ServeContent", 0, modtime, name, "nil"), WriteHeader(200)>>
    \o (IF method # "HEAD" THEN <<Write("content")>> ELSE <<>>)

----------------------------------------------------------------------------
(* getOrHeadHandler *)

\* a back link that always goes one level up
BackLinkOfAlwaysUp(urlPath, pathSplit) ==
    IF HasSuffix(urlPath, <<"/">>) THEN urlPath \o <<".", "/", "..">>
    ELSE urlPath \o <<"/", "..">>

\* the back link before the host rewriting is looked at
BackLinkOf(urlPath, pathSplit) ==
    IF Len(pathSplit) = 3 THEN urlPath
    ELSE IF Len(pathSplit) = 4 /\ pathSplit[4] = <<>> THEN urlPath
    ELSE IF HasSuffix(urlPath, <<"/">>) THEN urlPath \o <<".", "/", "..">>
    ELSE urlPath \o <<"/", "..">>

\* the back link of a request the host rewriting touched
HostBackLink(pathSplit) ==
    IF Len(pathSplit) > 5
    THEN <<"/">> \o StringsJoin(SubSeq(pathSplit, 4, Len(pathSplit) - 2)) \o <<"/">>
    ELSE <<"/">>

\* the back link of a directory listing
BackLink(urlPath, ipnsHostname) ==
    IF ipnsHostname THEN HostBackLink(Split(urlPath))
    ELSE BackLinkOf(urlPath, Split(urlPath))

\* the directoryItem of every link
DirListing(nd, originalURLPath) ==
    [i \in 1..Len(nd.Links) |->
        [Size |-> nd.Links[i].Size,
         Name |-> nd.Links[i].Name,
         Path |-> Join(<<originalURLPath, nd.Links[i].Name>>)]]

\* a loop that looks at the first link only
IndexLinkFirstOnly(nd) ==
    IF Len(nd.Links) > 0 /\ nd.Links[1].Name = <<"index.html">> THEN 1 ELSE 0

\* the loop over the links: the first link named index.html, 0 without one
IndexLink(nd) == LinkIndex(nd, <<"index.html">>)

\* r.Header["X-IPNS-Original-Path"]
IpnsHostname(r) == Len(r.orig) > 0

OriginalURLPath(r) == IF IpnsHostname(r) THEN r.orig[1] ELSE r.path

\* the index page: its byte stream is opened and copied
serveIndexStream(r, derr) ==
    <<Call("NewDagReader", <<>>, derr)>>
    \o (IF derr # "nil" THEN internalWebError
        ELSE IF r.method # "HEAD" THEN <<Write("index")>> ELSE <<>>)

\* the index page: path + "/index.html" is resolved
serveIndex(st, r, ip, res, netErr) ==
    <<Call("Resolve", ip, res.err)>>
    \o (IF res.err # "nil" THEN internalWebError
        ELSE serveIndexStream(r, NewDagReader(st, res.node, netErr)))

\* must the client be sent to the path with a slash?
NeedsSlash(urlPath) == Last(urlPath) # "/"

\* the directory part of getOrHeadHandler: from the loop over the links on
serveDirectory(st, r, nd, netErr) ==
    IF IndexLink(nd) # 0
    THEN IF NeedsSlash(r.path)
         THEN Redirect(OriginalURLPath(r) \o <<"/">>, 302)
         ELSE serveIndex(st, r, r.path \o <<"/", "index.html">>,
                         Resolve(st, r.path \o <<"/", "index.html">>, netErr), netErr)
    ELSE IF r.method # "HEAD"
    THEN <<Call("listingTemplate.Execute",
                [Listing  |-> DirListing(nd, OriginalURLPath(r)),
                 Path     |-> OriginalURLPath(r),
                 BackLink |-> BackLink(r.path, IpnsHostname(r))], "nil"),
           Write("listing")>>
    ELSE <<>>

\* the headers of an answer with content
userHeaders(r) ==
    addUserHeaders \o <<HeaderSet("X-IPFS-Path", r.path)>>
    \o (IF ~IpnsHostname(r)
        THEN <<HeaderSet("Suborigin", Split(r.path)[3])>> ELSE <<>>)

\* Etag and Cache-Control, of /ipfs/ paths only
cacheHeaders(urlPath) ==
    IF HasPrefix(urlPath, ipfsPathPrefix)
    THEN <<HeaderSet("Etag", Base(urlPath)),
           HeaderSet("Cache-Control", <<"public, max-age=29030400">>)>>
    ELSE <<>>

\* a modification time taken from the clock whatever the path
modtimeNow(urlPath) == "time.Now()"

modtime(urlPath) ==
    IF HasPrefix(urlPath, ipfsPathPrefix) THEN "time.Unix(1, 0)" ELSE "time.Now()"

\* getOrHeadHandler once the byte stream of the node is asked for
getOpened(st, r, nd, derr, netErr) ==
    <<Call("NewDagReader", <<>>, derr)>>
    \o (IF derr # "nil" /\ derr # "uio.ErrIsDir" THEN internalWebError
        ELSE cacheHeaders(r.path)
             \o (IF derr = "nil"
                 THEN ServeContent(r.method, SplitFile(r.path), modtime(r.path))
                 ELSE serveDirectory(st, r, nd, netErr)))

\* getOrHeadHandler once the path is resolved
getResolved(st, r, res, netErr) ==
    <<Call("Resolve", r.path, res.err)>>
    \o (IF res.err # "nil" THEN webError(res.err, 400)
        ELSE IF r.inm = Base(r.path) THEN <<WriteHeader(304)>>
        ELSE userHeaders(r)
             \o getOpened(st, r, res.node, NewDagReader(st, res.node, netErr), netErr))

\* a getOrHeadHandler that does not consult the block list
getOrHeadHandlerUnblocked(st, r, netErr) ==
    <<Call("getOrHeadHandler", r.path, "nil"), WithCancel("getOrHeadHandler")>>
    \o getResolved(st, r, Resolve(st, r.path, netErr), netErr)
    \o <<Cancel("getOrHeadHandler")>>

\* getOrHeadHandler: its own scope, canceled when it returns, and the
\* block list before everything else
getOrHeadHandler(st, r, netErr) ==
    <<Call("getOrHeadHandler", r.path, "nil"), WithCancel("getOrHeadHandler")>>
    \o (IF blockList # {} /\ ShouldBlock(r.path)
        THEN <<WriteHeader(403), Write("403 - Forbidden")>>
        ELSE getResolved(st, r, Resolve(st, r.path, netErr), netErr))
    \o <<Cancel("getOrHeadHandler")>>

----------------------------------------------------------------------------
(* postHandler and deleteHandler *)

\* the end of both handlers: the IPFS-Hash header and the 201 redirect
created(st, newkey, newPath) ==
    Done(st, addUserHeaders \o <<HeaderSet("IPFS-Hash", <<newkey>>)>>
             \o Redirect(Join(<<ipfsPathPrefix, <<newkey>>, newPath>>), 201))

\* the path below the root key: gopath.Join(rsegs[2:]...)
NewPath(rsegs) ==
    IF Len(rsegs) > 1 THEN Join(SubSeq(rsegs, 3, Len(rsegs))) ELSE <<>>

\* postHandler, case nil: the data of the resolved node is set and it is added
postSetData(newPath, a) ==
    Then(<<Call("DAG.Add", <<a.key>>, "nil")>>, created(a.st, a.key, newPath))

\* postHandler, case ErrNoLink, once the editor has inserted
postInserted(st, newPath, ins) ==
    Then(<<Call("InsertNodeAtPath", newPath, ins.err)>>,
         IF ins.err # "nil" THEN Done(st, webError(ins.err, 500))
         ELSE created(ins.st, KeyOf(ins.st, ins.node), newPath))

\* postHandler, case ErrNoLink, once the root is fetched
postPatch(st, k, g, newPath, newnode, netErr) ==
    Then(<<Call("DAG.Get", <<k>>, g.err)>>,
         IF g.err # "nil" THEN Done(st, webError(g.err, 500))
         ELSE postInserted(st, newPath,
                           InsertNodeAtPath(st, g.node, newPath, newnode, netErr)))

\* a postHandler that stores the new node in place of the resolved one
postResolvedReplacing(st, r, rsegs, newnode, res, netErr) ==
    Then(<<Call("Resolve", r.path, res.err)>>,
         IF res.err = "path.ErrNoLink"
         THEN postPatch(st, B58KeyDecode(rsegs[2]),
                        DagGet(st, B58KeyDecode(rsegs[2]), netErr),
                        NewPath(rsegs), newnode, netErr)
         ELSE IF res.err = "nil"
         THEN postSetData(NewPath(rsegs), DagAdd(st, newnode))
         ELSE Done(st, webError(res.err, 500)))

\* a postHandler that writes the data back under the key of the node it
\* resolved
postResolvedInPlace(st, r, rsegs, newnode, res, netErr) ==
    Then(<<Call("Resolve", r.path, res.err)>>,
         IF res.err = "path.ErrNoLink"
         THEN postPatch(st, B58KeyDecode(rsegs[2]),
                        DagGet(st, B58KeyDecode(rsegs[2]), netErr),
                        NewPath(rsegs), newnode, netErr)
         ELSE IF res.err = "nil"
         THEN postSetData(NewPath(rsegs),
                  [key |-> KeyOf(st, res.node),
                   st  |-> [st EXCEPT ![KeyOf(st, res.node)] =
                                Node(newnode.Data, res.node.Links)]])
         ELSE Done(st, webError(res.err, 500)))

\* postHandler once the path is resolved
postResolved(st, r, rsegs, newnode, res, netErr) ==
    Then(<<Call("Resolve", r.path, res.err)>>,
         IF res.err = "path.ErrNoLink"
         THEN postPatch(st, B58KeyDecode(rsegs[2]),
                        DagGet(st, B58KeyDecode(rsegs[2]), netErr),
                        NewPath(rsegs), newnode, netErr)
         ELSE IF res.err = "nil"
         THEN postSetData(NewPath(rsegs),
                          DagAdd(st, Node(newnode.Data, res.node.Links)))
         ELSE Done(st, webError(res.err, 500)))

\* postHandler once the body is imported
postImported(st, r, rsegs, imp, netErr) ==
    Then(<<Call("newDagFromReader", <<>>, imp.err)>>,
         IF imp.err # "nil" THEN Done(st, webError(imp.err, 500))
         ELSE postResolved(imp.st, r, rsegs, imp.node,
                           Resolve(imp.st, r.path, netErr), netErr))

\* a postHandler that imports the body whatever the final segment is
postParsedAlwaysImporting(st, r, rsegs, netErr) ==
    IF rsegs[1] = ipnsPathPrefix
    THEN Done(st, webError("ErrIPNSNotSupported", 400))
    ELSE postImported(st, r, rsegs, newDagFromReader(st, r.body), netErr)

\* postHandler once the path is parsed
postParsed(st, r, rsegs, netErr) ==
    IF rsegs[1] = ipnsPathPrefix
    THEN Done(st, webError("ErrIPNSNotSupported", 400))
    ELSE IF Last(rsegs) = <<EmptyDirKey>>
    THEN postResolved(st, r, rsegs, NewEmptyDirectory,
                      Resolve(st, r.path, netErr), netErr)
    ELSE postImported(st, r, rsegs, newDagFromReader(st, r.body), netErr)

postHandler(st, r, netErr) ==
    Then(<<Call("postHandler", r.path, "nil"),
           Call("ParsePath", r.path, ParsePath(r.path))>>,
         IF ParsePath(r.path) # "nil"
         THEN Done(st, webError(ParsePath(r.path), 400))
         ELSE postParsed(st, r, Segments(r.path), netErr))

\* a deleteHandler that does not look at the editor's error
deleteRemovedUnchecked(st, newPath, rm) ==
    Then(<<Call("RmLink", newPath, rm.err)>>,
         created(rm.st, KeyOf(rm.st, rm.node), newPath))

\* deleteHandler once the editor has removed the link
deleteRemoved(st, newPath, rm) ==
    Then(<<Call("RmLink", newPath, rm.err)>>,
         IF rm.err # "nil" THEN Done(st, webError(rm.err, 500))
         ELSE created(rm.st, KeyOf(rm.st, rm.node), newPath))

\* a deleteHandler that answers with the key of the root it fetched
deleteFromRootKeepingRoot(st, k, g, newPath, netErr) ==
    Then(<<Call("DAG.Get", <<k>>, g.err)>>,
         IF g.err # "nil" THEN Done(st, webError(g.err, 500))
         ELSE deleteRemoved(st, newPath,
                  [RmLink(st, g.node, newPath, netErr) EXCEPT !.node = g.node]))

\* deleteHandler once the root is fetched
deleteFromRoot(st, k, g, newPath, netErr) ==
    Then(<<Call("DAG.Get", <<k>>, g.err)>>,
         IF g.err # "nil" THEN Done(st, webError(g.err, 500))
         ELSE deleteRemoved(st, newPath, RmLink(st, g.node, newPath, netErr)))

\* deleteHandler once the path is parsed; the 405 of a bare /ipfs/$hash is
\* written and the handler goes on
deleteParsed(st, rsegs, netErr) ==
    IF rsegs[1] = ipnsPathPrefix
    THEN Done(st, webError("ErrIPNSNotSupported", 400))
    ELSE Then(IF Len(rsegs) = 2 THEN webErrorWithCode(405) ELSE <<>>,
              deleteFromRoot(st, B58KeyDecode(rsegs[2]),
                             DagGet(st, B58KeyDecode(rsegs[2]), netErr),
                             Join(SubSeq(rsegs, 3, Len(rsegs))), netErr))

deleteHandler(st, r, netErr) ==
    Then(<<Call("deleteHandler", r.path, "nil")>>,
         IF r.path = <<"/", "ipfs">> \/ r.path = ipfsPathPrefix
         THEN Done(st, webErrorWithCode(405))
         ELSE Then(<<Call("ParsePath", r.path, ParsePath(r.path))>>,
                   IF ParsePath(r.path) # "nil"
                   THEN Done(st, webError(ParsePath(r.path), 400))
                   ELSE deleteParsed(st, Segments(r.path), netErr)))

----------------------------------------------------------------------------
(* ServeHTTP *)

\* a ServeHTTP that does not look at config.Writable
RouteAlwaysWritable(method) ==
    IF method = "POST" THEN "postHandler"
    ELSE IF method = "PUT" THEN "put"
    ELSE IF method = "DELETE" THEN "deleteHandler"
    ELSE IF method = "GET" \/ method = "HEAD" THEN "getOrHeadHandler"
    ELSE "notAllowed"

\* the handler ServeHTTP gives the request to
Route(method) ==
    IF writable /\ method = "POST" THEN "postHandler"
    ELSE IF writable /\ method = "PUT" THEN "put"
    ELSE IF writable /\ method = "DELETE" THEN "deleteHandler"
    ELSE IF method = "GET" \/ method = "HEAD" THEN "getOrHeadHandler"
    ELSE "notAllowed"

\* ServeHTTP once the handler is chosen
Routed(to, st, r, netErr) ==
    IF to = "postHandler" THEN postHandler(st, r, netErr)
    ELSE IF to = "put" THEN Done(st, <<WriteHeader(405), Write("error")>>)
    ELSE IF to = "deleteHandler" THEN deleteHandler(st, r, netErr)
    ELSE IF to = "getOrHeadHandler" THEN Done(st, getOrHeadHandler(st, r, netErr))
    ELSE IF ~writable THEN Done(st, <<WriteHeader(405), Write("error")>>)
    ELSE Done(st, <<WriteHeader(400), Write("error")>>)

\* a ServeHTTP whose scope is canceled by no defer
ServeHTTPWithoutDefer(st, r, netErr) ==
    Then(<<WithCancel("ServeHTTP")>>, Routed(Route(r.method), st, r, netErr))

\* ServeHTTP: the scope of the request, canceled by a defer on every way
\* out, around the handler chosen
ServeHTTP(st, r, netErr) ==
    Then(<<WithCancel("ServeHTTP")>>,
         Deferred(Routed(Route(r.method), st, r, netErr), <<Cancel("ServeHTTP")>>))

----------------------------------------------------------------------------
(* Requests *)

LinkNames == {<<"a">>, <<"index.html">>}

NetErrs == {"routing.ErrNotFound", "context.DeadlineExceeded", "other"}

Bodies == {"f1", Unreadable}

SeqsUpTo(S, n) == UNION {[1..k -> S] : k \in 0..n}

\* the link names of a request path: at most MaxDepth, the last of which may
\* be the empty directory's key
Rests ==
    SeqsUpTo(LinkNames, MaxDepth)
    \cup {Append(x, <<EmptyDirKey>>) : x \in SeqsUpTo(LinkNames, MaxDepth - 1)}

RECURSIVE Flatten(_)
Flatten(segs) ==
    IF segs = <<>> THEN <<>> ELSE <<"/">> \o segs[1] \o Flatten(Tail(segs))

\* the roots of the paths requested: the keys of the store, a key it does
\* not hold, and the name the naming system knows
Roots(st) ==
    {<<"ipfs", k>> : k \in DOMAIN st \cup {RemoteKey}} \cup {<<"ipns", IpnsName>>}

Paths(st) ==
    {<<"/", "ipfs">>, ipfsPathPrefix}
    \cup {<<"/", root[1], "/", root[2]>> \o Flatten(rest) \o slash :
            root \in Roots(st), rest \in Rests, slash \in {<<>>, <<"/">>}}

Request(method, p, inm, orig, body) ==
    [method |-> method, path |-> p, inm |-> inm, orig |-> orig, body |-> body]

\* IPNSHostnameOption: the path requested of a host, found in the header
\* X-IPNS-Original-Path once the host's name is put before it
Rewritten(p) ==
    IF HasPrefix(p, ipnsPathPrefix) /\ Len(p) > 4
    THEN {<<>>, <<SubSeq(p, 5, Len(p))>>}
    ELSE {<<>>}

\* no request is being served
Idle == req.method = ""

\* the request is served: the store and the response are what ServeHTTP
\* leaves
Served(r, out) ==
    /\ \/ out.st = dag
       \/ Cardinality(DOMAIN dag) < Cardinality(DOMAIN InitDag) + MaxAdds
    /\ dag' = out.st
    /\ before' = dag
    /\ req' = r
    /\ ev' = out.ev
    /\ UNCHANGED <<writable, blockList, tasks>>

Serve(r, netErr) == Served(r, ServeHTTP(dag, r, netErr))

GetOrHead ==
    /\ Idle
    /\ \E method \in {"GET", "HEAD"}, p \in Paths(dag), netErr \in NetErrs :
         \E inm \in {<<>>, Base(p)}, orig \in Rewritten(p) :
            Serve(Request(method, p, inm, orig, ""), netErr)

Post ==
    /\ Idle
    /\ \E p \in Paths(dag), body \in Bodies, netErr \in NetErrs :
         Serve(Request("POST", p, <<>>, <<>>, body), netErr)

Put ==
    /\ Idle
    /\ \E p \in Paths(dag), netErr \in NetErrs :
         Serve(Request("PUT", p, <<>>, <<>>, ""), netErr)

Delete ==
    /\ Idle
    /\ \E p \in Paths(dag), netErr \in NetErrs :
         Serve(Request("DELETE", p, <<>>, <<>>, ""), netErr)

Options ==
    /\ Idle
    /\ \E p \in Paths(dag), netErr \in NetErrs :
         Serve(Request("OPTIONS", p, <<>>, <<>>, ""), netErr)

\* the response is sent and the connection is free for the next request
Return ==
    /\ ~Idle
    /\ req' = Request("", <<>>, <<>>, <<>>, "")
    /\ ev' = <<>>
    /\ before' = dag
    /\ UNCHANGED <<writable, blockList, dag, tasks>>

\* a goroutine that serves nothing
IdleTask ==
    [phase |-> "idle", req |-> Request("", <<>>, <<>>, <<>>, ""), netErr |-> "",
     todo |-> <<>>, map |-> <<>>, newkey |-> ""]

Init ==
    /\ \E cfg \in {<<TRUE, {}>>, <<FALSE, {}>>, <<FALSE, {<<KeyName(2)>>}>>} :
            writable = cfg[1] /\ blockList = cfg[2]
    /\ dag = InitDag
    /\ before = InitDag
    /\ req = Request("", <<>>, <<>>, <<>>, "")
    /\ ev = <<>>
    /\ tasks = [t \in 1..MaxTasks |-> IdleTask]

Next == GetOrHead \/ Post \/ Put \/ Delete \/ Options \/ Return

Spec == Init /\ [][Next]_vars

----------------------------------------------------------------------------
(* Reading the response and the calls of the last request *)

Has(op) == \E i \in 1..Len(ev) : ev[i].op = op

\* the status codes written, in order
Codes == SelectSeq(ev, LAMBDA e : e.op = "WriteHeader")

\* the status the client gets: the first one written; 200 when the body is
\* written first or nothing is written at all
Status ==
    IF \E i \in 1..Len(ev) :
          /\ ev[i].op = "WriteHeader"
          /\ \A j \in 1..(i-1) : ev[j].op # "Write"
    THEN Codes[1].code
    ELSE 200

HasHeader(name) ==
    \E i \in 1..Len(ev) : ev[i].op = "Header.Set" /\ ev[i].name = name

\* the value the header was last set to
Header(name) ==
    LET i == CHOOSE i \in 1..Len(ev) :
                /\ ev[i].op = "Header.Set" /\ ev[i].name = name
                /\ \A j \in (i+1)..Len(ev) :
                      ~(ev[j].op = "Header.Set" /\ ev[j].name = name)
    IN  ev[i].val

\* the calls that read or write the store
StoreOps == {"Resolve", "DAG.Get", "DAG.Add", "InsertNodeAtPath", "RmLink",
             "NewDagReader"}

TouchesStore == \E i \in 1..Len(ev) : ev[i].op \in StoreOps

\* the pieces of the request path that are not empty
ReqSegs == SelectSeq(Split(req.path), LAMBDA x : x # <<>>)

\* the request path is /ipfs/<key> and, with rest, link names after it
IsIpfsKeyPath ==
    /\ HasPrefix(req.path, ipfsPathPrefix)
    /\ Len(ReqSegs) >= 2
    /\ IsKey(ReqSegs[2])

\* the link names R of a request path /ipfs/<key>/<R>
R == SubSeq(ReqSegs, 3, Len(ReqSegs))

RootKey == ReqSegs[2][1]

\* the node the walk along names ends at, from the node of key k in st
Walk(st, k, names) == ResolveLinks(st, st[k], names, "other")

\* the links of nd other than the one named name
OtherLinks(nd, name) ==
    {[Name |-> nd.Links[i].Name, Target |-> nd.Links[i].Target] :
        i \in {j \in 1..Len(nd.Links) : nd.Links[j].Name # name}}

\* along R, every node that was there before the request keeps its other
\* links, from the old root oldk to the new root newk
SiblingsKept(oldk, newk) ==
    \A n \in 0..(Len(R) - 1) :
        LET old == Walk(before, oldk, SubSeq(R, 1, n))
            new == Walk(dag, newk, SubSeq(R, 1, n))
        IN  (oldk \in DOMAIN before /\ old.err = "nil") =>
                /\ new.err = "nil"
                /\ OtherLinks(new.node, R[n+1]) = OtherLinks(old.node, R[n+1])

----------------------------------------------------------------------------
(* C1 *)

\* C1: on a writable gateway a DELETE of /ipfs, /ipfs/ or a bare /ipfs/<key>
\* is answered 405 and the handler stops there: one status, no call that
\* touches the store, no header.
C1_DeleteOfRootStopsAt405 ==
    (/\ writable
     /\ req.method = "DELETE"
     /\ \/ req.path = <<"/", "ipfs">>
        \/ req.path = <<"/", "ipfs", "/">>
        \/ (IsIpfsKeyPath /\ Len(req.path) = 4))
    => /\ Status = 405
       /\ Len(Codes) = 1
       /\ ~TouchesStore
       /\ ~HasHeader("IPFS-Hash") /\ ~HasHeader("Location")

----------------------------------------------------------------------------
(* C2 *)

\* C2: on a writable gateway every POST and DELETE of a parsed path whose
\* first segment is ipns is answered 400, and neither the importer nor the
\* store nor the editor is called, nor is an IPFS-Hash header or a 201
\* written.
C2_NamedPathsRejected ==
    (/\ writable
     /\ req.method \in {"POST", "DELETE"}
     /\ ParsePath(req.path) = "nil"
     /\ Segments(req.path)[1] = <<"ipns">>)
    => /\ Status = 400
       /\ ~TouchesStore
       /\ ~Has("newDagFromReader")
       /\ ~HasHeader("IPFS-Hash")
       /\ \A i \in 1..Len(Codes) : Codes[i].code # 201

----------------------------------------------------------------------------
(* C3 *)

\* the payload of the node a POST builds
PostedData == IF Last(Segments(req.path)) = <<EmptyDirKey>> THEN "dir" ELSE req.body

PostCreated ==
    /\ writable /\ req.method = "POST" /\ IsIpfsKeyPath
    /\ Status = 201 /\ HasHeader("IPFS-Hash")

\* C3: after every successful POST to /ipfs/<key>/<R>, R resolves from the
\* key of the IPFS-Hash header to a node with the payload of the new node,
\* and no other link of a node along R has changed.
C3_PostThenResolve ==
    PostCreated =>
        LET newk == Header("IPFS-Hash")[1]
        IN  /\ newk \in DOMAIN dag
            /\ Walk(dag, newk, R).err = "nil"
            /\ Walk(dag, newk, R).node.Data = PostedData
            /\ SiblingsKept(RootKey, newk)

----------------------------------------------------------------------------
(* C4 *)

\* C4: a GET or HEAD whose If-None-Match equals the final segment of the
\* request path is answered 304 before any store access: no call resolves
\* the path, fetches a node or opens a byte stream.  Stated of the requests
\* the block list lets through and whose path the store resolves.
C4_NotModifiedBeforeStore ==
    (/\ req.method \in {"GET", "HEAD"}
     /\ req.inm = Base(req.path)
     /\ ~(blockList # {} /\ ShouldBlock(req.path))
     /\ Resolve(before, req.path, "other").err = "nil")
    => (Status = 304 /\ ~TouchesStore)

----------------------------------------------------------------------------
(* C5 *)

DeleteCreated ==
    /\ writable /\ req.method = "DELETE" /\ IsIpfsKeyPath
    /\ Status = 201 /\ HasHeader("IPFS-Hash")

\* C5: after every successful DELETE of /ipfs/<key>/<R>, resolving R from
\* the key of the IPFS-Hash header fails with no-such-link, and every other
\* link of every node from the root to the parent of R keeps its name and
\* its target.
C5_DeleteThenResolve ==
    DeleteCreated =>
        LET newk == Header("IPFS-Hash")[1]
        IN  /\ newk \in DOMAIN dag
            /\ Walk(dag, newk, R).err = "path.ErrNoLink"
            /\ SiblingsKept(RootKey, newk)

\* a link two levels below the root is deleted, beside another link of its
\* parent, and the store has grown
C5_DeepDelete ==
    /\ DeleteCreated /\ Len(R) = 2 /\ dag # before
    /\ OtherLinks(Walk(before, RootKey, <<R[1]>>).node, R[2]) # {}

----------------------------------------------------------------------------
(* C6 *)

\* a DELETE below a key of the store, with a segment of R that matches no
\* link
DeleteOfMissing ==
    /\ writable /\ req.method = "DELETE" /\ IsIpfsKeyPath
    /\ Len(R) >= 1
    /\ RootKey \in DOMAIN before
    /\ Walk(before, RootKey, R).err = "path.ErrNoLink"

\* C6: a DELETE of /ipfs/<key>/<R> with a segment of R that matches no link
\* is answered with an error, without 201, IPFS-Hash or Location, and
\* leaves the store, hence the tree under <key>, as it was.
C6_DeleteOfMissingFails ==
    DeleteOfMissing =>
        /\ Status >= 400
        /\ \A i \in 1..Len(Codes) : Codes[i].code # 201
        /\ ~HasHeader("IPFS-Hash") /\ ~HasHeader("Location")
        /\ dag = before
        /\ Walk(dag, RootKey, <<>>).node = Walk(before, RootKey, <<>>).node

\* the first segment of R matches a link, the second does not, and the
\* editor was asked to remove
C6_PartialMatch ==
    /\ DeleteOfMissing /\ Len(R) = 2
    /\ Walk(before, RootKey, <<R[1]>>).err = "nil"
    /\ Has("RmLink")

----------------------------------------------------------------------------
(* C7 *)

\* the step i of the request failed, and no status was written before it
FailedAt(i) ==
    /\ ev[i].op \in {"Resolve", "NewDagReader", "DAG.Get"}
    /\ ev[i].err \notin {"nil", "uio.ErrIsDir"}
    /\ ~(req.method = "POST" /\ ev[i].op = "Resolve"
                             /\ ev[i].err = "path.ErrNoLink")
    /\ \A j \in 1..(i-1) : ev[j].op # "WriteHeader"

\* C7: whatever step fails (the resolution of the path or of index.html,
\* the opening of the byte stream, the fetch of the root of an edit), the
\* status is 404 for no-such-link and routing not-found, 408 for a deadline
\* exceeded, and 400 or 500 only for other errors.
C7_ErrorsClassified ==
    \A i \in 1..Len(ev) :
        FailedAt(i) =>
            IF ev[i].err \in {"path.ErrNoLink", "routing.ErrNotFound"}
            THEN Status = 404
            ELSE IF ev[i].err = "context.DeadlineExceeded"
            THEN Status = 408
            ELSE Status \in {400, 500}

----------------------------------------------------------------------------
(* C8 *)

\* a GET or HEAD of a path without a final slash, resolved to a directory
\* that has a link named index.html
IndexedDirNoSlash ==
    /\ req.method \in {"GET", "HEAD"}
    /\ \E i \in 1..Len(ev) :
          ev[i].op = "Resolve" /\ ev[i].val = req.path /\ ev[i].err = "nil"
    /\ Last(req.path) # "/"
    /\ LET nd == Resolve(before, req.path, "other").node
       IN  /\ nd.Data = "dir"
           /\ \E l \in 1..Len(nd.Links) : nd.Links[l].Name = <<"index.html">>

RedirectedWithSlash ==
    /\ Status = 302
    /\ HasHeader("Location")
    /\ Header("Location") = OriginalURLPath(req) \o <<"/">>

\* C8 as stated: every such request is answered with a 302 to the original
\* path with a slash appended, and no listing is rendered.
C8_IndexRedirects ==
    IndexedDirNoSlash =>
        (RedirectedWithSlash /\ ~Has("listingTemplate.Execute"))

\* C8, amended: no listing is rendered, and the answer is the 302 to the
\* original path with a slash appended unless If-None-Match equals the
\* final segment of the path, when it is 304.
C8_IndexRedirectsUnlessNotModified ==
    IndexedDirNoSlash =>
        /\ ~Has("listingTemplate.Execute")
        /\ IF req.inm = Base(req.path) THEN Status = 304
           ELSE RedirectedWithSlash

\* the redirect of a request the host rewriting touched, for a directory
\* whose index.html is not its first link
C8_RewrittenIndexRedirect ==
    /\ IndexedDirNoSlash /\ Status = 302
    /\ IpnsHostname(req)
    /\ Resolve(before, req.path, "other").node.Links[1].Name # <<"index.html">>

----------------------------------------------------------------------------
(* C9 *)

\* what the listing template was given
ListingData ==
    ev[CHOOSE i \in 1..Len(ev) : ev[i].op = "listingTemplate.Execute"].val

\* the number of pieces the path splits in on "/"
Pieces(p) == Cardinality({i \in 1..Len(p) : p[i] = "/"}) + 1

BackLinkRule(p) ==
    IF Pieces(p) = 3 \/ (Pieces(p) = 4 /\ Last(p) = "/") THEN p
    ELSE IF Last(p) = "/" THEN p \o <<".", "/", "..">>
    ELSE p \o <<"/", "..">>

\* C9: the back link of a listing served without host rewriting is the path
\* itself for /ns/key and /ns/key/, else the path with /.. appended, or ./..
\* when it ends in a slash; so for /ipfs/Qm1, /ipfs/Qm1/a and /ipfs/Qm1/a/.
C9_BackLink ==
    (Has("listingTemplate.Execute") /\ ~IpnsHostname(req)) =>
        LET bl == ListingData.BackLink
            p1 == <<"/", "ipfs", "/", KeyName(1)>>
        IN  /\ bl = BackLinkRule(req.path)
            /\ req.path = p1 => bl = p1
            /\ req.path = p1 \o <<"/", "a">>
                  => bl = p1 \o <<"/", "a", "/", "..">>
            /\ req.path = p1 \o <<"/", "a", "/">>
                  => bl = p1 \o <<"/", "a", "/", ".", "/", "..">>

\* the listing of /ipfs/Qm1/a/
C9_ListingBelowRoot ==
    /\ Has("listingTemplate.Execute") /\ ~IpnsHostname(req)
    /\ req.path = <<"/", "ipfs", "/", KeyName(1), "/", "a", "/">>

----------------------------------------------------------------------------
(* C10 *)

\* C10: a gateway that is not writable answers every POST, PUT and DELETE
\* with 405 without reaching postHandler or deleteHandler, and its store
\* never changes; a writable one answers PUT with 405 without any store
\* access.
C10_ReadOnly ==
    /\ (~writable /\ req.method \in {"POST", "PUT", "DELETE"}) =>
            /\ Status = 405
            /\ ~Has("postHandler") /\ ~Has("deleteHandler")
            /\ ~TouchesStore
    /\ ~writable => (dag = InitDag /\ before = InitDag)
    /\ (writable /\ req.method = "PUT") =>
            (Status = 405 /\ ~TouchesStore /\ dag = before)

\* a DELETE of a link that exists, sent to a gateway that is not writable
C10_DeleteOnReadOnly ==
    /\ ~writable /\ req.method = "DELETE"
    /\ req.path = <<"/", "ipfs", "/", KeyName(1), "/", "a">>

----------------------------------------------------------------------------
(* C11 *)

\* a GET or HEAD of a path the configured block list blocks
BlockedRead ==
    /\ req.method \in {"GET", "HEAD"}
    /\ blockList # {}
    /\ ShouldBlock(req.path)

\* C11: every GET or HEAD of a path the block list blocks is answered 403,
\* and nothing is resolved, fetched or decoded for it: the block list is
\* looked at before the resolution.
C11_BlockedBeforeResolve ==
    BlockedRead =>
        /\ Status = 403
        /\ Len(Codes) = 1
        /\ ~TouchesStore
        /\ ~HasHeader("X-IPFS-Path") /\ ~HasHeader("Etag")

\* a blocked path below its root, which the store would resolve, asked for
\* with a matching If-None-Match
C11_BlockedResolvable ==
    /\ BlockedRead
    /\ Len(ReqSegs) = 3
    /\ Resolve(dag, req.path, "other").err = "nil"
    /\ req.inm = Base(req.path)

----------------------------------------------------------------------------
(* C12 *)

\* a GET or HEAD that was resolved and answered 200
ReadSucceeded ==
    /\ req.method \in {"GET", "HEAD"}
    /\ Has("NewDagReader")
    /\ Status = 200

\* the modification times handed to http.ServeContent
ModTimes == {ev[i].name : i \in {j \in 1..Len(ev) : ev[j].op = "ServeContent"}}

\* C12: the entity tag of a successful answer for an /ipfs/ path is the
\* final segment of the path and its modification time is the fixed
\* time.Unix(1, 0), both functions of the path alone, so that two answers
\* for one path agree; answers for /ipns/ paths carry neither Etag nor
\* Cache-Control.
C12_StableValidators ==
    /\ (ReadSucceeded /\ HasPrefix(req.path, ipfsPathPrefix)) =>
            /\ HasHeader("Etag")
            /\ Header("Etag") = Last(ReqSegs)
            /\ ModTimes \subseteq {"time.Unix(1, 0)"}
    /\ (req.method \in {"GET", "HEAD"} /\ HasPrefix(req.path, ipnsPathPrefix)) =>
            (~HasHeader("Etag") /\ ~HasHeader("Cache-Control"))

\* the content of a file below an /ipfs/ root is served
C12_FileServed ==
    /\ ReadSucceeded /\ req.method = "GET"
    /\ HasPrefix(req.path, ipfsPathPrefix)
    /\ Len(ReqSegs) = 4
    /\ ModTimes # {}

----------------------------------------------------------------------------
(* C13 *)

\* a POST of a parsed path whose final segment is the key of the empty
\* directory
PostOfEmptyDir ==
    /\ writable /\ req.method = "POST"
    /\ ParsePath(req.path) = "nil"
    /\ Last(Segments(req.path)) = <<EmptyDirKey>>

\* C13: a POST whose final segment is the key of the empty directory never
\* calls the importer, and the node it inserts is an empty directory: a
\* directory payload and no link.
C13_EmptyDirWithoutImporter ==
    PostOfEmptyDir =>
        /\ ~Has("newDagFromReader")
        /\ (Status = 201 /\ Has("InsertNodeAtPath") /\ IsIpfsKeyPath) =>
              LET n == Walk(dag, Header("IPFS-Hash")[1], R)
              IN  /\ n.err = "nil"
                  /\ n.node.Data = "dir"
                  /\ n.node.Links = <<>>
        /\ (Status = 201 /\ Has("DAG.Add")) =>
              dag[Header("IPFS-Hash")[1]].Data = "dir"

\* an empty directory is inserted below a link of the root, with a body
\* that would be read otherwise
C13_EmptyDirInserted ==
    /\ PostOfEmptyDir /\ IsIpfsKeyPath
    /\ Status = 201 /\ Has("InsertNodeAtPath")
    /\ Len(R) = 2
    /\ req.body = "f1"

----------------------------------------------------------------------------
(* C15 *)

\* a POST whose path resolved to a node, answered 201
PostOverResolved ==
    /\ writable /\ req.method = "POST"
    /\ Status = 201
    /\ \E i \in 1..Len(ev) : ev[i].op = "Resolve" /\ ev[i].err = "nil"

\* C15: when the path of a POST resolves to a node, the node stored under
\* the returned key has the payload of the new node and the links of the
\* resolved node, unchanged and in order; the editor is not called, the
\* handler adds that one node, and the store gains nothing else but what
\* the importer stored of the body.
C15_SetDataKeepsLinks ==
    PostOverResolved =>
        LET newk == Header("IPFS-Hash")[1]
            old  == Resolve(before, req.path, "other")
        IN  /\ old.err = "nil"
            /\ newk \in DOMAIN dag
            /\ dag[newk].Data = PostedData
            /\ dag[newk].Links = old.node.Links
            /\ ~Has("InsertNodeAtPath") /\ ~Has("RmLink") /\ ~Has("DAG.Get")
            /\ Len(SelectSeq(ev, LAMBDA e : e.op = "DAG.Add")) = 1
            /\ \A k \in DOMAIN before : k \in DOMAIN dag /\ dag[k] = before[k]
            /\ (DOMAIN dag \ DOMAIN before)
                  \subseteq {newk, KeyOf(dag, Node(PostedData, <<>>))}

\* the payload of a directory with links is replaced and the node is new
\* to the store
C15_DirectoryOverwritten ==
    /\ PostOverResolved
    /\ Len(dag[Header("IPFS-Hash")[1]].Links) = 2
    /\ Header("IPFS-Hash")[1] \notin DOMAIN before
    /\ req.body = "f1"

----------------------------------------------------------------------------
(* C16 *)

\* a directory listing served to a request the host rewriting touched
HostListing == Has("listingTemplate.Execute") /\ IpnsHostname(req)

\* the parent directory of the directory requested of the host: the
\* segments after the namespace and the name, without the last one
ParentOfRequested ==
    IF Len(R) <= 1 THEN <<"/">>
    ELSE Flatten(SubSeq(R, 1, Len(R) - 1)) \o <<"/">>

\* C16: the back link of a listing served to a host-rewritten request
\* starts and ends with a slash, holds neither the namespace nor the name,
\* and is the parent directory of the directory requested, with or without
\* a final slash in the request path.
C16_HostBackLinkIsParent ==
    HostListing =>
        LET bl == ListingData.BackLink
        IN  /\ bl[1] = "/" /\ Last(bl) = "/"
            /\ \A i \in 1..Len(bl) : bl[i] \notin {"ipns", IpnsName}
            /\ bl = ParentOfRequested

----------------------------------------------------------------------------
(* C17 *)

\* nothing follows the error status written at i but the error's text
NothingAfterError(i) ==
    \A j \in (i+1)..Len(ev) :
        /\ ev[j].op \notin StoreOps
        /\ ev[j].op # "WriteHeader"
        /\ ~(ev[j].op = "Header.Set" /\ ev[j].name \in {"IPFS-Hash", "Location"})

\* C17: a request gets one status: after an error status is written the
\* handler does not touch the store, writes no second status and sets
\* neither IPFS-Hash nor Location.
C17_OneStatus ==
    /\ Len(Codes) <= 1
    /\ \A i \in 1..Len(ev) :
          (ev[i].op = "WriteHeader" /\ ev[i].code >= 400) => NothingAfterError(i)

----------------------------------------------------------------------------
(* C18 *)

\* the scope is opened before the step k of the request and canceled
\* after it
Within(k, scope) ==
    /\ \E i \in 1..(k-1) : ev[i] = WithCancel(scope)
    /\ \E j \in (k+1)..Len(ev) : ev[j] = Cancel(scope)

\* the scope the calls of the request are given
ScopeOfCalls ==
    IF Has("getOrHeadHandler") THEN "getOrHeadHandler" ELSE "ServeHTTP"

\* C18: every request opens a scope of its own below the scope of the
\* node; every scope a request opens is canceled before the request
\* returns, on every way out; every call that reaches the store is made
\* within the scope it is given; and a request cancels the scopes it opened
\* only, never the scope of the node.
C18_ScopesCanceled ==
    ~Idle =>
        /\ ev[1] = WithCancel("ServeHTTP")
        /\ Last(ev) = Cancel("ServeHTTP")
        /\ \A i \in 1..Len(ev) :
              ev[i].op = "context.WithCancel" =>
                  /\ ev[i].name = NodeContext
                  /\ \E j \in (i+1)..Len(ev) : ev[j] = Cancel(ev[i].val[1])
        /\ \A j \in 1..Len(ev) :
              ev[j].op = "cancel" =>
                  /\ ev[j].val[1] # NodeContext
                  /\ \E i \in 1..(j-1) : ev[i] = WithCancel(ev[j].val[1])
        /\ \A k \in 1..Len(ev) :
              ev[k].op \in StoreOps => Within(k, ScopeOfCalls)

\* a 304, answered between the opening and the canceling of two scopes
C18_NotModifiedCanceled ==
    /\ Status = 304
    /\ Has("Resolve")
    /\ Cardinality({i \in 1..Len(ev) : ev[i].op = "cancel"}) = 2

----------------------------------------------------------------------------
(* Handlers that run at once.  net/http runs ServeHTTP of every request on *)
(* a goroutine of its own; the handlers share the store only.  A handler   *)
(* reads the nodes below the root key of its path, which are in the store  *)
(* when it begins, and nodes it stored itself: it is computed on the store *)
(* as it is when the handler begins, and what it stores goes to the shared *)
(* store node by node, between the steps of the other handlers.            *)

\* the mutations sent at once: POST and DELETE of the paths of the store
\* the gateway starts with
Mutations ==
    {Request(m, p, <<>>, <<>>, "f1") :
        m \in {"POST", "DELETE"},
        p \in {q \in Paths(InitDag) : Last(q) # "/"}}

\* the key names of a store of at most n keys, in the order they are given
KeyNames(n) == <<EmptyDirKey>> \o [i \in 1..n |-> KeyName(i)]

\* what a handler stores: the keys it adds or writes, in order
Changed(old, new, k) == k \in DOMAIN new /\ (k \notin DOMAIN old \/ new[k] # old[k])

ChangeOf(old, new, k) ==
    [key |-> k, node |-> new[k], fresh |-> k \notin DOMAIN old]

ChangesIn(old, new, names) ==
    [i \in 1..Len(names) |-> ChangeOf(old, new, names[i])]

Changes(old, new) ==
    ChangesIn(old, new,
              SelectSeq(KeyNames(Cardinality(DOMAIN new)),
                        LAMBDA k : Changed(old, new, k)))

\* the value of the IPFS-Hash header in what a handler did, "" without one
NewRootIn(e) ==
    IF \E i \in 1..Len(e) : e[i].op = "Header.Set" /\ e[i].name = "IPFS-Hash"
    THEN e[CHOOSE i \in 1..Len(e) :
               e[i].op = "Header.Set" /\ e[i].name = "IPFS-Hash"].val[1]
    ELSE ""

\* the handler of r has run on the store st
Begun(r, netErr, out, st) ==
    [phase |-> "storing", req |-> r, netErr |-> netErr,
     todo |-> Changes(st, out.st), map |-> <<>>, newkey |-> NewRootIn(out.ev)]

\* the key a handler knows as k, in the shared store
Renamed(map, k) == IF k \in DOMAIN map THEN map[k] ELSE k

\* the node with the keys of its links as the shared store has them
Rename(nd, map) ==
    Node(nd.Data,
         [i \in 1..Len(nd.Links) |->
            [nd.Links[i] EXCEPT !.Target = Renamed(map, nd.Links[i].Target)]])

\* the shared store once the change e, of node nd, is stored
StoreChange(e, nd) ==
    IF e.fresh THEN DagAdd(dag, nd).st ELSE [dag EXCEPT ![e.key] = nd]

StoredBy(t, e, nd) ==
    /\ dag' = StoreChange(e, nd)
    /\ tasks' = [tasks EXCEPT
                    ![t].todo = Tail(@),
                    ![t].map = @ @@ (e.key :> IF e.fresh THEN KeyOf(dag, nd)
                                               ELSE e.key)]

\* a request arrives and its handler runs
Begin(t) ==
    /\ tasks[t].phase = "idle"
    /\ \E r \in Mutations, netErr \in {"routing.ErrNotFound"} :
          tasks' = [tasks EXCEPT ![t] = Begun(r, netErr, ServeHTTP(dag, r, netErr), dag)]
    /\ before' = dag
    /\ UNCHANGED <<writable, blockList, dag, req, ev>>

\* the next node the handler stores reaches the shared store
Store(t) ==
    /\ tasks[t].phase = "storing"
    /\ tasks[t].todo # <<>>
    /\ StoredBy(t, Head(tasks[t].todo), Rename(Head(tasks[t].todo).node, tasks[t].map))
    /\ before' = dag
    /\ UNCHANGED <<writable, blockList, req, ev>>

\* the handler returns
End(t) ==
    /\ tasks[t].phase = "storing"
    /\ tasks[t].todo = <<>>
    /\ tasks' = [tasks EXCEPT ![t].phase = "done"]
    /\ before' = dag
    /\ UNCHANGED <<writable, blockList, dag, req, ev>>

InitAtOnce ==
    /\ writable = TRUE
    /\ blockList = {}
    /\ dag = InitDag
    /\ before = InitDag
    /\ req = Request("", <<>>, <<>>, <<>>, "")
    /\ ev = <<>>
    /\ tasks = [t \in 1..MaxTasks |-> IdleTask]

NextAtOnce == \E t \in 1..MaxTasks : Begin(t) \/ Store(t) \/ End(t)

SpecAtOnce == InitAtOnce /\ [][NextAtOnce]_vars

----------------------------------------------------------------------------
(* C14 *)

\* the tree below the key k of the store st
RECURSIVE Tree(_, _)
Tree(st, k) ==
    IF k \notin DOMAIN st THEN [Missing |-> k]
    ELSE [Data  |-> st[k].Data,
          Links |-> [i \in 1..Len(st[k].Links) |->
                        [Name |-> st[k].Links[i].Name,
                         Size |-> st[k].Links[i].Size,
                         Sub  |-> Tree(st, st[k].Links[i].Target)]]]

\* what the request of the task gives when it runs alone on the store the
\* gateway starts with
Alone(t) == ServeHTTP(InitDag, tasks[t].req, tasks[t].netErr)

\* the new root of the task, in the shared store
FinalKey(t) == Renamed(tasks[t].map, tasks[t].newkey)

SameAsAlone(t, alone) ==
    /\ (tasks[t].newkey = "") <=> (NewRootIn(alone.ev) = "")
    /\ tasks[t].newkey # "" =>
          Tree(dag, FinalKey(t)) = Tree(alone.st, NewRootIn(alone.ev))

====
